---- MODULE Spec2Model ----
(***************************************************************************)
(* CCU Rounder: the hemodynamics calculations (useHemodynamics), the drip  *)
(* conversions (calcDose, calcRate) and the App component's form state and *)
(* its persistence in localStorage.                                        *)
(*                                                                         *)
(* JavaScript values are records [k, n, d, s]:                             *)
(*   k = "undefined" | "null" | "string" | "number" | "NaN" | "Infinity"   *)
(*   n/d  the value of a finite number, as a fraction in lowest terms      *)
(*        (d > 0); for "Infinity" n is the sign, 1 or -1                   *)
(*   s    the characters of a string, one single-character string each     *)
(* Finite arithmetic is exact (rational); Math.sqrt is exact on perfect    *)
(* squares and rounded down to SqrtScale-ths elsewhere.  The rounding and  *)
(* the overflow of IEEE doubles are not modelled.                          *)
(***************************************************************************)
EXTENDS Integers, Sequences, FiniteSets, TLC

VARIABLES
    store,      \* localStorage: key -> sequence of JSON tokens, or Missing
    hemo,       \* App state `hemo` (key -> JavaScript value)
    drip,       \* App state `drip`
    hemoIsDefault, \* the object held by `hemo` is the constant defaultHemo itself
    dripIsDefault, \* the object held by `drip` is the constant defaultDrip itself
    tab,        \* App state `tab`
    pend,       \* save effects scheduled by the last render and not yet run
    results,    \* what useHemodynamics returned to the last render
    raised,     \* the last render's read of a field of `results` raised
    phase,      \* "boot", then "render" -> "effects" -> "ready"; "input"/"done" for the calculators
    edits,      \* number of field edits so far
    cleared,    \* 'Clear all' has been clicked (history)
    lastOp,     \* the last user operation (history)
    memo,       \* the values computed inside useHemodynamics by the last evaluation
    dose,       \* calcDose of the drip record
    rate,       \* calcRate of the drip record
    back        \* calcRate of calcDose's result (same bag and weight)

vars == <<store, hemo, drip, hemoIsDefault, dripIsDefault, tab, pend, results,
          raised, phase, edits, cleared, lastOp, memo, dose, rate, back>>

----------------------------------------------------------------------------
(* JavaScript values *)

Undefined == [k |-> "undefined", n |-> 0, d |-> 1, s |-> <<>>]
Null == [k |-> "null", n |-> 0, d |-> 1, s |-> <<>>]
NaN == [k |-> "NaN", n |-> 0, d |-> 1, s |-> <<>>]
Inf(sign) == [k |-> "Infinity", n |-> sign, d |-> 1, s |-> <<>>]
Str(chars) == [k |-> "string", n |-> 0, d |-> 1, s |-> chars]

Abs(x) == IF x < 0 THEN -x ELSE x
Sign(x) == IF x < 0 THEN -1 ELSE IF x = 0 THEN 0 ELSE 1

RECURSIVE GCD(_, _)
GCD(a, b) == IF b = 0 THEN a ELSE GCD(b, a % b)

\* the finite number num/den (den # 0), in lowest terms
Num(num, den) ==
    LET g == GCD(Abs(num), Abs(den))
        sg == IF den < 0 THEN -1 ELSE 1
    IN [k |-> "number", n |-> sg * (num \div g), d |-> sg * (den \div g), s |-> <<>>]

IsNumeric(x) == x.k \in {"number", "NaN", "Infinity"}
IsFin(x) == x.k = "number"
\* sign of a numeric value that is not NaN
SignOf(x) == Sign(x.n)

----------------------------------------------------------------------------
(* Number arithmetic: + - * / Math.sqrt on finite numbers, NaN and the     *)
(* infinities.  A zero is the positive zero.                               *)

Neg(a) ==
    CASE a.k = "NaN" -> NaN
      [] a.k = "Infinity" -> Inf(-a.n)
      [] OTHER -> Num(-a.n, a.d)

Add(a, b) ==
    CASE a.k = "NaN" \/ b.k = "NaN" -> NaN
      [] a.k = "Infinity" /\ b.k = "Infinity" -> IF a.n = b.n THEN a ELSE NaN
      [] a.k = "Infinity" -> a
      [] b.k = "Infinity" -> b
      [] OTHER -> Num(a.n * b.d + b.n * a.d, a.d * b.d)

Sub(a, b) == Add(a, Neg(b))

Mul(a, b) ==
    CASE a.k = "NaN" \/ b.k = "NaN" -> NaN
      [] a.k = "Infinity" \/ b.k = "Infinity" ->
            IF SignOf(a) * SignOf(b) = 0 THEN NaN ELSE Inf(SignOf(a) * SignOf(b))
      [] OTHER -> Num(a.n * b.n, a.d * b.d)

Div(a, b) ==
    CASE a.k = "NaN" \/ b.k = "NaN" -> NaN
      [] a.k = "Infinity" /\ b.k = "Infinity" -> NaN
      [] a.k = "Infinity" -> Inf(IF SignOf(b) < 0 THEN -a.n ELSE a.n)
      [] b.k = "Infinity" -> Num(0, 1)
      [] b.n = 0 -> IF a.n = 0 THEN NaN ELSE Inf(Sign(a.n))
      [] OTHER -> Num(a.n * b.d, a.d * b.n)

\* the largest r in lo..hi with r * r <= x (lo * lo <= x)
RECURSIVE ISqrtIn(_, _, _)
ISqrtIn(x, lo, hi) ==
    IF lo >= hi THEN lo
    ELSE LET mid == (lo + hi + 1) \div 2
         IN IF mid * mid <= x THEN ISqrtIn(x, mid, hi) ELSE ISqrtIn(x, lo, mid - 1)

ISqrt(x) == ISqrtIn(x, 0, IF x < 46340 THEN x ELSE 46340)

\* denominators of the rounded square root are multiples of this
SqrtScale == 10

MathSqrt(a) ==
    CASE a.k = "NaN" -> NaN
      [] a.k = "Infinity" -> IF a.n > 0 THEN a ELSE NaN
      [] a.n < 0 -> NaN
      [] OTHER -> Num(ISqrt(a.n * a.d * SqrtScale * SqrtScale), a.d * SqrtScale)

\* a <= b of JavaScript: false when either side is NaN
Lte(a, b) ==
    CASE a.k = "NaN" \/ b.k = "NaN" -> FALSE
      [] a.k = "Infinity" /\ b.k = "Infinity" -> a.n <= b.n
      [] a.k = "Infinity" -> a.n < 0
      [] b.k = "Infinity" -> b.n > 0
      [] OTHER -> a.n * b.d <= b.n * a.d

\* ToBoolean: what `!x` and `x && y` test
Truthy(x) ==
    CASE x.k \in {"undefined", "null", "NaN"} -> FALSE
      [] x.k = "string" -> x.s # <<>>
      [] x.k = "Infinity" -> TRUE
      [] OTHER -> x.n # 0

\* x == null
LooseNull(x) == x.k \in {"undefined", "null"}

\* x === 0
IsZero(x) == x.k = "number" /\ x.n = 0

----------------------------------------------------------------------------
(* Number(text): the numeric value of a string.  The texts of the model    *)
(* are written with digits, a sign, a decimal point and letters; they hold *)
(* no white space, no exponent and no radix prefix, which this grammar     *)
(* (StrDecimalLiteral without ExponentPart) therefore leaves out.          *)

DigitChars == <<"0", "1", "2", "3", "4", "5", "6", "7", "8", "9">>
IsDigit(c) == \E i \in 1..10 : DigitChars[i] = c
DigitVal(c) == (CHOOSE i \in 1..10 : DigitChars[i] = c) - 1

InfinityChars == <<"I", "n", "f", "i", "n", "i", "t", "y">>

RECURSIVE Pow10(_)
Pow10(e) == IF e = 0 THEN 1 ELSE 10 * Pow10(e - 1)

RECURSIVE DigitsValue(_, _)
DigitsValue(cs, acc) ==
    IF cs = <<>> THEN acc ELSE DigitsValue(Tail(cs), 10 * acc + DigitVal(Head(cs)))

RECURSIVE NatText(_)
\* the decimal digits of a natural number
NatText(i) ==
    IF i < 10 THEN <<DigitChars[i + 1]>>
    ELSE Append(NatText(i \div 10), DigitChars[(i % 10) + 1])

AllDigits(cs) == \A i \in 1..Len(cs) : IsDigit(cs[i])

\* an unsigned literal: Infinity, digits, digits. , digits.digits , .digits
UnsignedToNumber(cs) ==
    IF cs = InfinityChars THEN Inf(1)
    ELSE LET dots == {i \in 1..Len(cs) : cs[i] = "."}
             dot == IF dots = {} THEN Len(cs) + 1 ELSE CHOOSE i \in dots : TRUE
             ip == SubSeq(cs, 1, dot - 1)
             fp == SubSeq(cs, dot + 1, Len(cs))
         IN IF Cardinality(dots) > 1 \/ ~AllDigits(ip) \/ ~AllDigits(fp)
               \/ Len(ip) + Len(fp) = 0
            THEN NaN
            ELSE Num(DigitsValue(ip, 0) * Pow10(Len(fp)) + DigitsValue(fp, 0),
                     Pow10(Len(fp)))

StringToNumber(cs) ==
    IF cs = <<>> THEN Num(0, 1)
    ELSE IF Head(cs) = "-" THEN Neg(UnsignedToNumber(Tail(cs)))
    ELSE IF Head(cs) = "+" THEN UnsignedToNumber(Tail(cs))
    ELSE UnsignedToNumber(cs)

\* Number(v) for any value
ToNumber(v) ==
    CASE v.k = "undefined" -> NaN
      [] v.k = "null" -> Num(0, 1)
      [] v.k = "string" -> StringToNumber(v.s)
      [] OTHER -> v

clampNum(v) ==
    LET x == ToNumber(v)
    IN IF IsFin(x) THEN x ELSE Undefined

----------------------------------------------------------------------------
(* Records.  A record is a function on Keys; a key the object does not     *)
(* hold maps to Undefined (a property read, a destructuring, a spread and  *)
(* JSON.stringify all treat the two alike).                                *)

HemoFields == {"heightCm", "weightKg", "hb", "hr", "sbp", "dbp", "cvp",
               "pasp", "padp", "pcwp", "sao2", "svo2"}
DripFields == {"weightKg", "mgInBag", "volumeMl", "rateMlHr", "targetDose"}
Keys == {"sex", "0"} \cup HemoFields \cup DripFields

defaultHemo == [key \in Keys |-> IF key = "sex" THEN Str(<<>>) ELSE Undefined]
defaultDrip == [key \in Keys |-> Undefined]

N(i) == Num(i, 1)

----------------------------------------------------------------------------
(* Hemodynamic calculations: the values useHemodynamics computes.          *)

bsa(state) ==
    LET h == clampNum(state.heightCm)
        w == clampNum(state.weightKg)
    IN IF ~Truthy(h) \/ ~Truthy(w) THEN Undefined
       ELSE MathSqrt(Div(Mul(h, w), N(3600)))

map(state) ==
    LET s == clampNum(state.sbp)
        d == clampNum(state.dbp)
    IN IF ~Truthy(s) \/ ~Truthy(d) THEN Undefined
       ELSE Add(d, Div(Sub(s, d), N(3)))

mPAP(state) ==
    LET ps == clampNum(state.pasp)
        pd == clampNum(state.padp)
    IN IF ~Truthy(ps) \/ ~Truthy(pd) THEN Undefined
       ELSE Div(Add(ps, Mul(N(2), pd)), N(3))

caO2(state) ==
    LET H == clampNum(state.hb)
        Sa == clampNum(state.sao2)
    IN IF ~Truthy(H) \/ ~Truthy(Sa) THEN Undefined
       ELSE Mul(Mul(Num(134, 100), H), Div(Sa, N(100)))

cvO2(state) ==
    LET H == clampNum(state.hb)
        Sv == clampNum(state.svo2)
    IN IF ~Truthy(H) \/ ~Truthy(Sv) THEN Undefined
       ELSE Mul(Mul(Num(134, 100), H), Div(Sv, N(100)))

\* The derived values below read the values computed before them, as the
\* useMemo callbacks read the constants of the enclosing function.

vo2(vBsa) ==
    IF ~Truthy(vBsa) THEN Undefined
    ELSE Mul(N(125), vBsa)

\* co without the test of the arteriovenous gap
co_NoGapGuard(vVo2, vCaO2, vCvO2) ==
    IF LooseNull(vVo2) \/ LooseNull(vCaO2) \/ LooseNull(vCvO2)
    THEN Undefined
    ELSE Div(vVo2, Mul(Sub(vCaO2, vCvO2), N(10)))

co(vVo2, vCaO2, vCvO2) ==
    IF LooseNull(vVo2) \/ LooseNull(vCaO2) \/ LooseNull(vCvO2)
    THEN Undefined
    ELSE LET delta == Sub(vCaO2, vCvO2)
         IN IF Lte(delta, N(0)) THEN Undefined
            ELSE Div(vVo2, Mul(delta, N(10)))

ci(vCo, vBsa) ==
    IF LooseNull(vCo) \/ LooseNull(vBsa) \/ IsZero(vBsa)
    THEN Undefined
    ELSE Div(vCo, vBsa)

sv(vCo, hr) ==
    LET C == vCo
        H == clampNum(hr)
    IN IF ~Truthy(C) \/ ~Truthy(H) \/ IsZero(H) THEN Undefined
       ELSE Div(Mul(C, N(1000)), H)

\* svr without the test that CVP is present
svr_NoCvpGuard(vMap, vCo, cvp) ==
    LET M == vMap
        C == vCo
        Cv == clampNum(cvp)
    IN IF LooseNull(M) \/ LooseNull(C) \/ IsZero(C) THEN Undefined
       ELSE Div(Mul(N(80), Sub(M, ToNumber(Cv))), C)

svr(vMap, vCo, cvp) ==
    LET M == vMap
        C == vCo
        Cv == clampNum(cvp)
    IN IF LooseNull(M) \/ LooseNull(C) \/ LooseNull(Cv) \/ IsZero(C) THEN Undefined
       ELSE Div(Mul(N(80), Sub(M, Cv)), C)

\* pcwp is used as entered: `mPAP - pcwp` converts it with ToNumber
pvr(vMPAP, vCo, pcwp) ==
    IF LooseNull(vMPAP) \/ LooseNull(vCo) \/ LooseNull(pcwp) \/ IsZero(vCo)
    THEN Undefined
    ELSE Div(Mul(N(80), Sub(vMPAP, ToNumber(pcwp))), vCo)

pvrWU(vMPAP, vCo, pcwp) ==
    IF LooseNull(vMPAP) \/ LooseNull(vCo) \/ LooseNull(pcwp) \/ IsZero(vCo)
    THEN Undefined
    ELSE Div(Sub(vMPAP, ToNumber(pcwp)), vCo)

ResultFields == {"bsa", "map", "mPAP", "caO2", "cvO2", "vo2", "co", "ci", "sv",
                 "svr", "pvr", "pvrWU"}

\* the twelve useMemo values of one evaluation, in the order of the source
HemoMemo(state) ==
    LET vBsa == bsa(state)
        vMap == map(state)
        vMPAP == mPAP(state)
        vCaO2 == caO2(state)
        vCvO2 == cvO2(state)
        vVo2 == vo2(vBsa)
        vCo == co(vVo2, vCaO2, vCvO2)
    IN [bsa |-> vBsa, map |-> vMap, mPAP |-> vMPAP, caO2 |-> vCaO2,
        cvO2 |-> vCvO2, vo2 |-> vVo2, co |-> vCo,
        ci |-> ci(vCo, vBsa),
        sv |-> sv(vCo, state.hr),
        svr |-> svr(vMap, vCo, state.cvp),
        pvr |-> pvr(vMPAP, vCo, state.pcwp),
        pvrWU |-> pvrWU(vMPAP, vCo, state.pcwp)]

\* One call of useHemodynamics: `computed` are the twelve values it
\* evaluates, `returned` is what the caller gets.  The function body ends
\* after pvrWU without a return statement, so the call returns undefined.
useHemodynamics(state) ==
    [computed |-> HemoMemo(state), returned |-> Undefined]

----------------------------------------------------------------------------
(* Drip calculator *)

calcDose(mgInBag, volumeMl, rateMlHr, weightKg) ==
    LET mgPerMl == IF Truthy(mgInBag) /\ Truthy(volumeMl)
                   THEN Div(mgInBag, volumeMl) ELSE Undefined
    IN IF ~Truthy(mgPerMl) \/ ~Truthy(rateMlHr) \/ ~Truthy(weightKg)
          \/ Lte(mgPerMl, N(0)) \/ Lte(weightKg, N(0))
       THEN Undefined
       ELSE Div(Mul(rateMlHr, Mul(mgPerMl, N(1000))), Mul(N(60), weightKg))

\* calcRate without the weight in the numerator
calcRate_NoWeight(mgInBag, volumeMl, doseMcgKgMin, weightKg) ==
    LET mgPerMl == IF Truthy(mgInBag) /\ Truthy(volumeMl)
                   THEN Div(mgInBag, volumeMl) ELSE Undefined
    IN IF ~Truthy(mgPerMl) \/ ~Truthy(doseMcgKgMin) \/ ~Truthy(weightKg)
          \/ Lte(mgPerMl, N(0)) \/ Lte(weightKg, N(0))
       THEN Undefined
       ELSE Div(Mul(doseMcgKgMin, N(60)), Mul(mgPerMl, N(1000)))

calcRate(mgInBag, volumeMl, doseMcgKgMin, weightKg) ==
    LET mgPerMl == IF Truthy(mgInBag) /\ Truthy(volumeMl)
                   THEN Div(mgInBag, volumeMl) ELSE Undefined
    IN IF ~Truthy(mgPerMl) \/ ~Truthy(doseMcgKgMin) \/ ~Truthy(weightKg)
          \/ Lte(mgPerMl, N(0)) \/ Lte(weightKg, N(0))
       THEN Undefined
       ELSE Div(Mul(Mul(doseMcgKgMin, N(60)), weightKg), Mul(mgPerMl, N(1000)))

----------------------------------------------------------------------------
(* The persisted store *)

HemoKey == "ccu_hemo_v1"
DripKey == "ccu_drip_v1"
StoreKeys == {HemoKey, DripKey}

\* a slot of localStorage: absent (getItem returns null) or a text
NoItem == [present |-> FALSE, text |-> <<>>]
Item(text) == [present |-> TRUE, text |-> text]

NoMemo == [f \in ResultFields |-> Undefined]

----------------------------------------------------------------------------
(* JSON texts.  A text is a sequence of tokens [t, s]: a punctuation mark, *)
(* a string literal (s its characters; a key is the one symbol naming it), *)
(* a number literal (s its characters) or null.  The texts of the model    *)
(* hold objects whose members are strings, numbers or null, and such       *)
(* values on their own; only the keys of Keys occur.  The members of an    *)
(* object are written in the order of KeyOrder.                            *)

Punct(c) == [t |-> "punct", s |-> <<c>>]
StrTok(chars) == [t |-> "string", s |-> chars]
NumTok(chars) == [t |-> "number", s |-> chars]
NullTok == [t |-> "null", s |-> <<>>]

KeyOrder == <<"0", "sex", "heightCm", "weightKg", "hb", "hr", "sbp", "dbp", "cvp",
              "pasp", "padp", "pcwp", "sao2", "svo2", "mgInBag", "volumeMl",
              "rateMlHr", "targetDose">>

\* the decimal text of an integer
IntText(i) == IF i < 0 THEN <<"-">> \o NatText(-i) ELSE NatText(i)

\* the token of a member's value (finite numbers in the records of the model
\* are integers: they come from number literals without a fraction)
ValueToken(v) ==
    CASE v.k = "string" -> StrTok(v.s)
      [] v.k = "number" -> NumTok(IntText(v.n))
      [] OTHER -> NullTok

RECURSIVE MemberTokens(_, _)
\* the members of rec from the i-th key of KeyOrder on, each preceded by a comma
MemberTokens(rec, i) ==
    IF i > Len(KeyOrder) THEN <<>>
    ELSE LET key == KeyOrder[i]
         IN (IF rec[key].k = "undefined" THEN <<>>
             ELSE <<Punct(","), StrTok(<<key>>), Punct(":"), ValueToken(rec[key])>>)
            \o MemberTokens(rec, i + 1)

\* JSON.stringify of a record: members with an undefined value are left out
JSONstringify(rec) ==
    LET ms == MemberTokens(rec, 1)
    IN <<Punct("{")>> \o (IF ms = <<>> THEN <<>> ELSE Tail(ms)) \o <<Punct("}")>>

\* a number literal of JSON without fraction and exponent: -? digits
IsJSONInteger(cs) ==
    LET ds == IF cs # <<>> /\ Head(cs) = "-" THEN Tail(cs) ELSE cs
    IN ds # <<>> /\ AllDigits(ds) /\ (Len(ds) > 1 => Head(ds) # "0")

IsScalarToken(tok) ==
    \/ tok.t \in {"string", "null"}
    \/ tok.t = "number" /\ IsJSONInteger(tok.s)

ScalarValue(tok) ==
    CASE tok.t = "string" -> Str(tok.s)
      [] tok.t = "number" -> StringToNumber(tok.s)
      [] OTHER -> Null

\* JSON.parse: [ok |-> FALSE] is a SyntaxError; otherwise the value is an
\* object (obj: key -> value, Undefined for a key it does not hold) or a
\* scalar (val).  A later member with the same key replaces an earlier one.
JSONparse(ts) ==
    LET n == Len(ts)
        inner == SubSeq(ts, 2, n - 1)
        m == Len(inner)
        count == (m + 1) \div 4
        memberOk(j) ==
            /\ inner[4 * j - 3].t = "string"
            /\ inner[4 * j - 2] = Punct(":")
            /\ IsScalarToken(inner[4 * j - 1])
            /\ (j < count => inner[4 * j] = Punct(","))
        holders(key) == {j \in 1..count : inner[4 * j - 3].s = <<key>>}
        last(S) == CHOOSE j \in S : \A i \in S : i <= j
        failed == [ok |-> FALSE, isObject |-> FALSE,
                   obj |-> [key \in Keys |-> Undefined], val |-> Undefined]
    IN IF n = 1 /\ IsScalarToken(ts[1])
       THEN [ok |-> TRUE, isObject |-> FALSE,
             obj |-> [key \in Keys |-> Undefined], val |-> ScalarValue(ts[1])]
       ELSE IF n >= 2 /\ ts[1] = Punct("{") /\ ts[n] = Punct("}")
               /\ (m = 0 \/ (m % 4 = 3 /\ \A j \in 1..count : memberOk(j)))
       THEN [ok |-> TRUE, isObject |-> TRUE,
             obj |-> [key \in Keys |->
                        IF holders(key) = {} THEN Undefined
                        ELSE ScalarValue(inner[4 * last(holders(key)) - 1])],
             val |-> Undefined]
       ELSE failed

\* { ...base, ...parsed }: the own enumerable properties of the parsed value
\* over those of base.  A string spreads its characters under the keys
\* "0", "1", ...; a number and null spread nothing.  (The strings of the
\* texts of the model hold at most one character.)
Spread(base, parsed) ==
    IF parsed.isObject
    THEN [key \in Keys |-> IF parsed.obj[key].k = "undefined" THEN base[key]
                           ELSE parsed.obj[key]]
    ELSE IF parsed.val.k = "string" /\ parsed.val.s # <<>>
    THEN [base EXCEPT !["0"] = Str(<<Head(parsed.val.s)>>)]
    ELSE base

\* a useState initialiser: the record, and whether it is the default object
\* itself (getItem returned null or an empty text, or JSON.parse threw)
Load(item, default) ==
    IF ~item.present \/ item.text = <<>>
    THEN [rec |-> default, isDefault |-> TRUE]
    ELSE LET parsed == JSONparse(item.text)
         IN IF ~parsed.ok THEN [rec |-> default, isDefault |-> TRUE]
            ELSE [rec |-> Spread(default, parsed), isDefault |-> FALSE]

----------------------------------------------------------------------------
(* The calculators on their own: every input record of the choices below   *)
(* is evaluated once.                                                      *)

\* the largest natural number entered in a drip field
MaxNum == 3

HemoChoices ==
    [heightCm |-> {Undefined, Str(<<"1", "8", "0">>), Str(<<"-", "1", "8", "0">>)},
     weightKg |-> {Undefined, Str(<<"8", "0">>), Str(<<"0">>)},
     hb |-> {Undefined, Str(<<"1", "0">>)},
     hr |-> {Undefined, Str(<<"5", "0">>), Str(<<"0">>)},
     sbp |-> {Undefined, Str(<<"1", "2", "0">>)},
     dbp |-> {Undefined, Str(<<"8", "0">>)},
     cvp |-> {Undefined, Str(<<"8">>), Str(<<>>)},
     pasp |-> {Undefined, Str(<<"4", "0">>)},
     padp |-> {Undefined, Str(<<"2", "0">>)},
     pcwp |-> {Undefined, Str(<<"1", "2">>), Str(<<>>), Str(<<"a", "b", "c">>)},
     sao2 |-> {Undefined, Str(<<"9", "0">>), Str(<<"7", "0">>), Str(<<"6", "0">>)},
     svo2 |-> {Undefined, Str(<<"7", "0">>)}]

DripChoices ==
    {Undefined, Str(<<"a">>), Str(<<"-", "4">>), Str(<<"0">>), Str(<<".", "5">>)}
    \cup {Str(NatText(i)) : i \in 1..MaxNum}

\* every record that holds, for each field, one of its choices
HemoInputs ==
    {[key \in Keys |-> IF key \in HemoFields THEN c[key] ELSE defaultHemo[key]] :
        c \in [heightCm : HemoChoices.heightCm, weightKg : HemoChoices.weightKg,
               hb : HemoChoices.hb, hr : HemoChoices.hr, sbp : HemoChoices.sbp,
               dbp : HemoChoices.dbp, cvp : HemoChoices.cvp, pasp : HemoChoices.pasp,
               padp : HemoChoices.padp, pcwp : HemoChoices.pcwp,
               sao2 : HemoChoices.sao2, svo2 : HemoChoices.svo2]}

AppIdle ==
    /\ store = [key \in StoreKeys |-> NoItem]
    /\ hemoIsDefault = FALSE
    /\ dripIsDefault = FALSE
    /\ tab = "hemo"
    /\ pend = {}
    /\ raised = FALSE
    /\ edits = 0
    /\ cleared = FALSE
    /\ lastOp = "none"

InitHemo ==
    /\ AppIdle
    /\ hemo \in HemoInputs
    /\ drip = defaultDrip
    /\ phase = "input"
    /\ results = Undefined
    /\ memo = NoMemo
    /\ dose = Undefined /\ rate = Undefined /\ back = Undefined

\* one evaluation of useHemodynamics(hemo)
Evaluate ==
    /\ phase = "input"
    /\ \E call \in {useHemodynamics(hemo)} :
          memo' = call.computed /\ results' = call.returned
    /\ phase' = "done"
    /\ UNCHANGED <<store, hemo, drip, hemoIsDefault, dripIsDefault, tab, pend,
                   raised, edits, cleared, lastOp, dose, rate, back>>

SpecHemo == InitHemo /\ [][Evaluate]_vars

----------------------------------------------------------------------------
(* Claims about the hemodynamic calculations (under SpecHemo)              *)

Absent(x) == x.k = "undefined"

\* the input fields an output needs, directly or through upstream values
Requires ==
    [bsa |-> {"heightCm", "weightKg"},
     map |-> {"sbp", "dbp"},
     mPAP |-> {"pasp", "padp"},
     caO2 |-> {"hb", "sao2"},
     cvO2 |-> {"hb", "svo2"},
     vo2 |-> {"heightCm", "weightKg"},
     co |-> {"heightCm", "weightKg", "hb", "sao2", "svo2"},
     ci |-> {"heightCm", "weightKg", "hb", "sao2", "svo2"},
     sv |-> {"heightCm", "weightKg", "hb", "sao2", "svo2", "hr"},
     svr |-> {"heightCm", "weightKg", "hb", "sao2", "svo2", "sbp", "dbp", "cvp"},
     pvr |-> {"heightCm", "weightKg", "hb", "sao2", "svo2", "pasp", "padp", "pcwp"},
     pvrWU |-> {"heightCm", "weightKg", "hb", "sao2", "svo2", "pasp", "padp", "pcwp"}]

\* the derived values an output is computed from
Upstream ==
    [bsa |-> {}, map |-> {}, mPAP |-> {}, caO2 |-> {}, cvO2 |-> {},
     vo2 |-> {"bsa"},
     co |-> {"vo2", "caO2", "cvO2"},
     ci |-> {"co", "bsa"},
     sv |-> {"co"},
     svr |-> {"map", "co"},
     pvr |-> {"mPAP", "co"},
     pvrWU |-> {"mPAP", "co"}]

\* C2: monotonic dependency propagation: every derived value is absent
\* whenever an input field it requires, or a derived value it is computed
\* from, is absent.
C2_Propagation ==
    phase = "done" =>
        \A out \in ResultFields :
            (\/ \E f \in Requires[out] : Absent(hemo[f])
             \/ \E u \in Upstream[out] : Absent(memo[u]))
            => Absent(memo[out])

\* C2 witness: everything entered but CVP; cardiac output and MAP are
\* computed and SVR is absent.
C2_Witness ==
    /\ phase = "done"
    /\ Absent(hemo.cvp)
    /\ \A f \in HemoFields \ {"cvp"} : ~Absent(hemo[f])
    /\ IsFin(memo.co) /\ IsFin(memo.map)
    /\ Absent(memo.svr)

\* C3: every computed value is absent or a finite number (never NaN, never
\* infinite), and a zero cardiac output, heart rate or BSA makes the value
\* divided by it absent.
C3_AbsentOrFinite ==
    phase = "done" =>
        /\ \A out \in ResultFields : memo[out].k \in {"undefined", "number"}
        /\ IsZero(clampNum(hemo.hr)) => Absent(memo.sv)
        /\ IsZero(memo.bsa) => Absent(memo.ci)
        /\ IsZero(memo.co) => Absent(memo.svr) /\ Absent(memo.pvr) /\ Absent(memo.pvrWU)

\* C4: cardiac output is absent whenever CaO2 <= CvO2, and a cardiac output
\* that is present is a strictly positive number.
C4_CardiacOutputPositive ==
    phase = "done" =>
        /\ (IsNumeric(memo.caO2) /\ IsNumeric(memo.cvO2) /\ Lte(memo.caO2, memo.cvO2))
              => Absent(memo.co)
        /\ ~Absent(memo.co) => (IsFin(memo.co) /\ memo.co.n > 0)

\* C4 witness: VO2 is known, the arterial and venous contents are equal, and
\* cardiac output is absent.
C4_Witness ==
    /\ phase = "done"
    /\ IsFin(memo.vo2) /\ IsFin(memo.caO2)
    /\ memo.caO2 = memo.cvO2
    /\ Absent(memo.co)

\* a text that does not parse to a finite number, or the empty text
NotANumberText(v) ==
    v.k = "string" /\ (v.s = <<>> \/ ~IsFin(StringToNumber(v.s)))

\* C7 (hemodynamic fields): a field whose text is empty or does not parse to
\* a finite number is treated as absent: the calculations give what they
\* give with that field absent.
C7_UnparsableIsAbsent ==
    phase = "done" =>
        \A f \in HemoFields :
            NotANumberText(hemo[f]) => memo = HemoMemo([hemo EXCEPT ![f] = Undefined])

----------------------------------------------------------------------------
(* The drip calculator on its own *)

DripInputs ==
    {[key \in Keys |-> IF key \in DripFields THEN c[key] ELSE defaultDrip[key]] :
        c \in [weightKg : DripChoices, mgInBag : DripChoices, volumeMl : DripChoices,
               rateMlHr : DripChoices, targetDose : DripChoices]}

InitDrip ==
    /\ AppIdle
    /\ hemo = defaultHemo
    /\ drip \in DripInputs
    /\ phase = "input"
    /\ results = Undefined
    /\ memo = NoMemo
    /\ dose = Undefined /\ rate = Undefined /\ back = Undefined

\* the two conversions as the drip panel calls them, and the rate computed
\* back from the dose
Convert ==
    /\ phase = "input"
    /\ dose' = calcDose(clampNum(drip.mgInBag), clampNum(drip.volumeMl),
                        clampNum(drip.rateMlHr), clampNum(drip.weightKg))
    /\ rate' = calcRate(clampNum(drip.mgInBag), clampNum(drip.volumeMl),
                        clampNum(drip.targetDose), clampNum(drip.weightKg))
    /\ back' = calcRate(clampNum(drip.mgInBag), clampNum(drip.volumeMl),
                        dose', clampNum(drip.weightKg))
    /\ phase' = "done"
    /\ UNCHANGED <<store, hemo, drip, hemoIsDefault, dripIsDefault, tab, pend,
                   results, raised, edits, cleared, lastOp, memo>>

SpecDrip == InitDrip /\ [][Convert]_vars

Positive(x) == IsFin(x) /\ x.n > 0

\* all inputs present, weight > 0, volume > 0 and concentration > 0
DripValid(mg, vol, x, w) ==
    /\ IsFin(mg) /\ IsFin(vol) /\ IsFin(x) /\ IsFin(w)
    /\ Positive(w) /\ Positive(vol)
    /\ Positive(Div(mg, vol))

\* C5: calcDose and calcRate return a number exactly when all inputs are
\* present, weight > 0, diluent volume > 0 and concentration > 0; otherwise
\* the result is absent.
C5_NumberIffValid ==
    phase = "done" =>
        /\ dose.k \in {"undefined", "number"}
        /\ rate.k \in {"undefined", "number"}
        /\ IsFin(dose) <=> DripValid(clampNum(drip.mgInBag), clampNum(drip.volumeMl),
                                     clampNum(drip.rateMlHr), clampNum(drip.weightKg))
        /\ IsFin(rate) <=> DripValid(clampNum(drip.mgInBag), clampNum(drip.volumeMl),
                                     clampNum(drip.targetDose), clampNum(drip.weightKg))

\* C6: round trip: for positive rate, drug mass, diluent volume and weight,
\* calcRate of the dose calcDose returns is the original rate.
C6_RoundTrip ==
    (/\ phase = "done"
     /\ Positive(clampNum(drip.rateMlHr)) /\ Positive(clampNum(drip.mgInBag))
     /\ Positive(clampNum(drip.volumeMl)) /\ Positive(clampNum(drip.weightKg)))
    => back = clampNum(drip.rateMlHr)

\* C6 witness: a converted record with positive rate, mass, volume and
\* weight, not all equal, whose dose is a number other than the rate.
C6_Witness ==
    /\ phase = "done"
    /\ Positive(clampNum(drip.rateMlHr)) /\ Positive(clampNum(drip.mgInBag))
    /\ Positive(clampNum(drip.volumeMl)) /\ Positive(clampNum(drip.weightKg))
    /\ drip.mgInBag # drip.volumeMl
    /\ clampNum(drip.weightKg) = Num(1, 2)
    /\ IsFin(dose) /\ dose # clampNum(drip.rateMlHr)
    /\ IsFin(back)

----------------------------------------------------------------------------
(* The App component.  A user operation runs its handler; the render it   *)
(* causes and the save effects that render schedules (pend) run next,     *)
(* before any other operation.  Reading a field of `results` raises a TypeError   *)
(* when `results` is undefined or null; `raised` records that the last     *)
(* render did so.  What the host page does with such an error is outside   *)
(* this component: the handlers and effects below are modelled as written, *)
(* whether or not a render raised.                                         *)

\* the largest number of field edits in a run
MaxEdits == 2

\* what a number input hands to onChange: the empty text or a number
EditTexts == {Str(<<>>), Str(<<"7">>)}
SexTexts == {Str(<<>>), Str(<<"M">>), Str(<<"F">>)}

\* what the store may hold when the page is opened
SlotValues ==
    {NoItem,
     Item(<<Punct("{"), StrTok(<<"sex">>)>>),
     Item(<<Punct("{"), StrTok(<<"sex">>), Punct(":"), StrTok(<<>>), Punct(","),
            StrTok(<<"weightKg">>), Punct(":"), StrTok(<<"7">>), Punct("}")>>),
     Item(<<StrTok(<<"7">>)>>)}

Init ==
    /\ store \in [StoreKeys -> SlotValues]
    /\ hemo = defaultHemo /\ drip = defaultDrip
    /\ hemoIsDefault = TRUE /\ dripIsDefault = TRUE
    /\ tab = "hemo"
    /\ pend = {}
    /\ results = Undefined
    /\ raised = FALSE
    /\ phase = "boot"
    /\ edits = 0
    /\ cleared = FALSE
    /\ lastOp = "none"
    /\ memo = NoMemo
    /\ dose = Undefined /\ rate = Undefined /\ back = Undefined

\* first call of App, lines 202-218: the useState initialisers read the store
Mount ==
    /\ phase = "boot"
    /\ LET lh == Load(store[HemoKey], defaultHemo)
           ld == Load(store[DripKey], defaultDrip)
       IN /\ hemo' = lh.rec /\ hemoIsDefault' = lh.isDefault
          /\ drip' = ld.rec /\ dripIsDefault' = ld.isDefault
    /\ tab' = "hemo"
    /\ pend' = StoreKeys
    /\ phase' = "render"
    /\ lastOp' = "mount"
    /\ UNCHANGED <<store, edits, cleared, results, raised, memo, dose, rate, back>>

\* the rest of the body of App, lines 227-385, for the current state: the
\* hook call, and the panel of the selected tab, which reads results.bsa ...
\* results.pvrWU (hemo) or calls calcDose and calcRate (drip)
Render ==
    /\ phase = "render"
    /\ \E call \in {useHemodynamics(hemo)} :
          /\ memo' = call.computed
          /\ results' = call.returned
          /\ raised' = (tab = "hemo" /\ LooseNull(call.returned))
    /\ dose' = IF tab = "drip"
               THEN calcDose(clampNum(drip.mgInBag), clampNum(drip.volumeMl),
                             clampNum(drip.rateMlHr), clampNum(drip.weightKg))
               ELSE Undefined
    /\ rate' = IF tab = "drip"
               THEN calcRate(clampNum(drip.mgInBag), clampNum(drip.volumeMl),
                             clampNum(drip.targetDose), clampNum(drip.weightKg))
               ELSE Undefined
    /\ phase' = IF pend = {} THEN "ready" ELSE "effects"
    /\ UNCHANGED <<store, hemo, drip, hemoIsDefault, dripIsDefault, tab, pend,
                   edits, cleared, lastOp, back>>

\* the text a save effect writes under a key
SavedText_HemoOnly(key) == JSONstringify(hemo)

SavedText(key) == IF key = HemoKey THEN JSONstringify(hemo) ELSE JSONstringify(drip)

\* the save effects the render scheduled run
RunEffects ==
    /\ phase = "effects"
    /\ store' = [key \in StoreKeys |->
                    IF key \in pend THEN Item(SavedText(key)) ELSE store[key]]
    /\ pend' = {}
    /\ phase' = "ready"
    /\ UNCHANGED <<hemo, drip, hemoIsDefault, dripIsDefault, tab, results, raised,
                   edits, cleared, lastOp, memo, dose, rate, back>>

derived == <<results, raised, memo, dose, rate, back>>

SetTab(tb) ==
    /\ phase = "ready" /\ tb # tab
    /\ tab' = tb
    /\ phase' = "render"
    /\ lastOp' = "tab"
    /\ UNCHANGED <<store, hemo, drip, hemoIsDefault, dripIsDefault, pend,
                   edits, cleared, derived>>

\* onChange of the sex select and of a field of the hemodynamics panel
SetHemo(key, v) ==
    /\ phase = "ready" /\ tab = "hemo" /\ edits < MaxEdits
    /\ hemo' = [hemo EXCEPT ![key] = v]
    /\ hemoIsDefault' = FALSE
    /\ pend' = {HemoKey}
    /\ edits' = edits + 1
    /\ phase' = "render"
    /\ lastOp' = "editHemo"
    /\ UNCHANGED <<store, drip, dripIsDefault, tab, cleared, derived>>

\* onChange of a field of the drip panel
SetDrip(key, v) ==
    /\ phase = "ready" /\ tab = "drip" /\ edits < MaxEdits
    /\ drip' = [drip EXCEPT ![key] = v]
    /\ dripIsDefault' = FALSE
    /\ pend' = {DripKey}
    /\ edits' = edits + 1
    /\ phase' = "render"
    /\ lastOp' = "editDrip"
    /\ UNCHANGED <<store, hemo, hemoIsDefault, tab, cleared, derived>>

\* onClick of 'Clear all' (drip panel): both states are set to the default
\* objects and both items are removed; a state that already held its
\* default object does not change, so its effect is not scheduled
ClearAll ==
    /\ phase = "ready" /\ tab = "drip"
    /\ hemo' = defaultHemo /\ hemoIsDefault' = TRUE
    /\ drip' = defaultDrip /\ dripIsDefault' = TRUE
    /\ store' = [key \in StoreKeys |-> NoItem]
    /\ pend' = (IF hemoIsDefault THEN {} ELSE {HemoKey})
               \cup (IF dripIsDefault THEN {} ELSE {DripKey})
    /\ cleared' = TRUE
    /\ phase' = "render"
    /\ lastOp' = "clear"
    /\ UNCHANGED <<tab, edits, derived>>

Next ==
    \/ Mount
    \/ Render
    \/ RunEffects
    \/ \E tb \in {"hemo", "drip"} : SetTab(tb)
    \/ \E v \in SexTexts : SetHemo("sex", v)
    \/ \E key \in HemoFields, v \in EditTexts : SetHemo(key, v)
    \/ \E key \in DripFields, v \in EditTexts : SetDrip(key, v)
    \/ ClearAll

Spec == Init /\ [][Next]_vars

----------------------------------------------------------------------------
(* Claims about the App component (under Spec)                             *)

Rec(key) == IF key = HemoKey THEN hemo ELSE drip
Default(key) == IF key = HemoKey THEN defaultHemo ELSE defaultDrip

\* C1: the call of useHemodynamics returns a record, and the render's reads
\* of results.bsa ... results.pvrWU do not raise.
C1_ResultsReadable ==
    phase \in {"effects", "ready"} => (~LooseNull(results) /\ ~raised)

\* C8: once 'Clear all' and the store writes it triggers have completed,
\* both records are the all-absent defaults and neither key is in the store.
C8_ClearRemovesSlots ==
    (lastOp = "clear" /\ phase = "ready") =>
        /\ hemo = defaultHemo /\ drip = defaultDrip
        /\ \A key \in StoreKeys : ~store[key].present

\* the slot of a tool holds the serialization of the tool's record, and the
\* startup load of that slot gives the record back
InSync(key) ==
    /\ store[key] = Item(JSONstringify(Rec(key)))
    /\ Load(store[key], Default(key)).rec = Rec(key)

\* C9: after any sequence of field edits (no 'Clear all'), a slot no save
\* effect is pending for holds the serialization of its tool's record and
\* loads back to exactly that record (every slot, once the effects have
\* run); an edit of one tool's record schedules no write of the other
\* tool's slot.
C9_StoreRoundTrip ==
    (phase \in {"render", "effects", "ready"} /\ ~cleared) =>
        /\ \A key \in StoreKeys \ pend : InSync(key)
        /\ phase = "ready" => pend = {}
        /\ lastOp = "editHemo" => DripKey \notin pend
        /\ lastOp = "editDrip" => HemoKey \notin pend

\* C9 witness: edits of both tools have been saved; the hemodynamics record
\* holds an empty text and a key loaded from the store.
C9_Witness ==
    /\ phase = "ready" /\ ~cleared
    /\ edits = 2 /\ lastOp = "editDrip"
    /\ hemo.cvp = Str(<<>>)
    /\ hemo.weightKg = Str(<<"7">>)
    /\ drip.rateMlHr = Str(<<"7">>)
    /\ InSync(HemoKey) /\ InSync(DripKey)

\* a record of the tool's input type: sex (hemodynamics only) one of the
\* three choices, every field of the tool a string or absent, no other key
IsInputRecord(key, r) ==
    LET fields == IF key = HemoKey THEN HemoFields ELSE DripFields
    IN /\ r.sex \in (IF key = HemoKey THEN SexTexts ELSE {Undefined})
       /\ \A f \in fields : r[f].k \in {"undefined", "string"}
       /\ \A other \in Keys \ (fields \cup {"sex"}) : r[other] = Undefined

\* the text is the serialization of an input record of the tool
IsSerializedRecord(key, text) ==
    LET parsed == JSONparse(text)
    IN /\ parsed.ok /\ parsed.isObject
       /\ IsInputRecord(key, Spread(Default(key), parsed))
       /\ text = JSONstringify(Spread(Default(key), parsed))

\* C10: at startup, a tool whose slot is missing or does not hold the
\* serialization of an input record starts from its all-absent default,
\* whatever the other slot holds.
C10_FallbackToDefault ==
    (lastOp = "mount" /\ phase = "render") =>
        \A key \in StoreKeys :
            (~store[key].present \/ ~IsSerializedRecord(key, store[key].text))
            => Rec(key) = Default(key)

====
